---- MODULE Spec2Model ----
(***************************************************************************)
(* Model of the reverse-mode gradient engines of gradient-reverse-mode:    *)
(*   quantum_brackpropagation/gradient_lookup.py   (gradient_lookup,       *)
(*                                                  analytic_gradient)     *)
(*   quantum_brackpropagation/circuit_gradients.py (StateGradient)         *)
(*   quantum_circuit_gradients/backpropagation_state_gradient.py           *)
(*                                        (BackpropagationStateGradient)   *)
(*                                                                         *)
(* Amplitudes are exact: every angle is a multiple of pi/4, so every       *)
(* amplitude lies in Q(zeta), zeta = exp(i*pi/8), and is kept as           *)
(* (c[1] + c[2] zeta + ... + c[8] zeta^7) / 2^d with zeta^8 = -1, reduced  *)
(* to lowest terms so that equal numbers are equal values.                 *)
(***************************************************************************)
EXTENDS Integers, Sequences, FiniteSets, TLC

(***************************************************************************)
(* Exact complex arithmetic in Q(zeta16)                                   *)
(***************************************************************************)

\* An operator's argument is evaluated once, to a value, before the body
\* reads it: the body sees it as a bound variable.
Once(F(_), x) == CHOOSE r \in {F(v) : v \in {x}} : TRUE
Once2(F(_, _), x, y) == CHOOSE r \in {F(v, w) : v \in {x}, w \in {y}} : TRUE

\* tuples are built element by element
Tuple8(F(_)) == <<F(1), F(2), F(3), F(4), F(5), F(6), F(7), F(8)>>
Vector(F(_), n) ==
  CASE n = 1 -> <<F(1)>>
    [] n = 2 -> <<F(1), F(2)>>
    [] n = 4 -> <<F(1), F(2), F(3), F(4)>>
    [] n = 8 -> <<F(1), F(2), F(3), F(4), F(5), F(6), F(7), F(8)>>

AllEven(c) == \A m \in 1..8 : c[m] % 2 = 0

RECURSIVE NormOf(_)
NormOf(x) ==
  IF x.d > 0 /\ AllEven(x.c)
    THEN Once(NormOf, [c |-> Tuple8(LAMBDA m : x.c[m] \div 2), d |-> x.d - 1])
    ELSE x

\* lowest terms: no factor 2 common to the numerator and the denominator
Norm(x) == Once(NormOf, x)

Pow2(n) == CASE n = 0 -> 1 [] n = 1 -> 2 [] n = 2 -> 4 [] n = 3 -> 8
             [] n = 4 -> 16 [] n = 5 -> 32 [] n = 6 -> 64 [] n = 7 -> 128
             [] n = 8 -> 256 [] n = 9 -> 512 [] n = 10 -> 1024
             [] OTHER -> 2 ^ n

CInt(n) == [c |-> Tuple8(LAMBDA m : IF m = 1 THEN n ELSE 0), d |-> 0]
CZero == CInt(0)
COne == CInt(1)

ZetaOf(r) ==
  [c |-> Tuple8(LAMBDA m : IF r < 8 THEN (IF m = r + 1 THEN 1 ELSE 0)
                                  ELSE (IF m = r - 7 THEN -1 ELSE 0)),
   d |-> 0]

\* zeta^k for any integer k (zeta^8 = -1, zeta^16 = 1)
Zeta(k) == Once(ZetaOf, k % 16)

AddOf(x, y) ==
  IF x.d >= y.d
    THEN [c |-> Tuple8(LAMBDA m : x.c[m] + Pow2(x.d - y.d) * y.c[m]), d |-> x.d]
    ELSE [c |-> Tuple8(LAMBDA m : Pow2(y.d - x.d) * x.c[m] + y.c[m]), d |-> y.d]

CAdd(x, y) == Norm(Once2(AddOf, x, y))

NegOf(x) == [c |-> Tuple8(LAMBDA m : 0 - x.c[m]), d |-> x.d]

CNeg(x) == Once(NegOf, x)

CSub(x, y) == CAdd(x, CNeg(y))

\* coefficient of zeta^(m-1) in the product: negacyclic convolution
MulCoeff(a, b, m) ==
  LET t(k) == IF k <= m THEN a[k] * b[m - k + 1]
                        ELSE 0 - a[k] * b[m - k + 9]
  IN t(1) + t(2) + t(3) + t(4) + t(5) + t(6) + t(7) + t(8)

MulOf(x, y) == [c |-> Tuple8(LAMBDA m : MulCoeff(x.c, y.c, m)), d |-> x.d + y.d]

CMul(x, y) == Norm(Once2(MulOf, x, y))

HalfOf(x) == [c |-> x.c, d |-> x.d + 1]

CHalf(x) == Norm(Once(HalfOf, x))

ConjOf(x) ==
  [c |-> Tuple8(LAMBDA m : IF m = 1 THEN x.c[1] ELSE 0 - x.c[10 - m]), d |-> x.d]

\* complex conjugate: zeta^k -> zeta^(-k) = -zeta^(8-k)
CConj(x) == Once(ConjOf, x)

TwiceRealOf(x) == CAdd(x, CConj(x))

\* 2 * Re(x)
TwiceReal(x) == Once(TwiceRealOf, x)

CI == Zeta(4)

\* cos and sin of h * pi/8
Cos8(h) == CHalf(CAdd(Zeta(h), Zeta(0 - h)))
Sin8(h) == CHalf(CMul(Zeta(12), CSub(Zeta(h), Zeta(0 - h))))

(***************************************************************************)
(* Circuits.  A parameter value k stands for the angle k*pi/4.  A gate      *)
(* parameter is a ParameterExpression mult*par with one free Parameter      *)
(* (kind "expr") or an already bound number (kind "num").  A gate is        *)
(* [name, params, qargs, ops, id]: ops is non-empty only for a circuit      *)
(* appended as one instruction (name "circuit", ops on local qubits), and   *)
(* id is the identity of the Python object: 0 for an object no engine field *)
(* refers to, the engine's own gate objects are numbered from 1.            *)
(***************************************************************************)

Qubits == {0, 1}
Parameters == {"a", "b"}

Expr(p, m) == [kind |-> "expr", par |-> p, mult |-> m, val |-> 0]
Num(k) == [kind |-> "num", par |-> "", mult |-> 0, val |-> k]

Gate(n, ps, qs) == [name |-> n, params |-> ps, qargs |-> qs, ops |-> <<>>, id |-> 0]
SubCircuit(os, qs) ==
  [name |-> "circuit", params |-> <<>>, qargs |-> qs, ops |-> os, id |-> 0]

\* ParameterExpression.parameters of one gate parameter
FreeOfParam(p) == IF p.kind = "expr" THEN {p.par} ELSE {}

\* the free Parameters of an instruction (of its ops, for a sub-circuit)
FreeOfParams(ps) == UNION {FreeOfParam(ps[i]) : i \in 1..Len(ps)}

FreeOfGate(g) ==
  FreeOfParams(g.params) \cup UNION {FreeOfParams(g.ops[k].params) : k \in 1..Len(g.ops)}

\* QuantumCircuit.parameters
FreeOfCircuit(circ) == UNION {FreeOfGate(circ[i]) : i \in 1..Len(circ)}

(***************************************************************************)
(* State evolution (the simulation layer the engines call)                 *)
(***************************************************************************)

RECURSIVE Concat(_)
Concat(ss) == IF ss = <<>> THEN <<>> ELSE Head(ss) \o Concat(Tail(ss))

Bit(i, q) == ((i - 1) \div Pow2(q)) % 2
WithBit(i, q, b) == i + (b - Bit(i, q)) * Pow2(q)

\* half-angle of a bound gate parameter, in units of pi/8; an unbound
\* parameter has no angle (no case matches).
HalfAngle(p) == CASE p.kind = "num" -> p.val

Matrix(name, params) ==
  CASE name = "rx" ->
         LET h == HalfAngle(params[1])
             s == CMul(Zeta(12), Sin8(h))
         IN <<<<Cos8(h), s>>, <<s, Cos8(h)>>>>
    [] name = "ry" ->
         LET h == HalfAngle(params[1])
         IN <<<<Cos8(h), CNeg(Sin8(h))>>, <<Sin8(h), Cos8(h)>>>>
    [] name = "rz" ->
         LET h == HalfAngle(params[1])
         IN <<<<Zeta(0 - h), CZero>>, <<CZero, Zeta(h)>>>>
    [] name = "x" -> <<<<CZero, COne>>, <<COne, CZero>>>>
    [] name = "y" -> <<<<CZero, Zeta(12)>>, <<CI, CZero>>>>
    [] name = "z" -> <<<<COne, CZero>>, <<CZero, CNeg(COne)>>>>
    [] name = "h" -> <<<<Cos8(2), Cos8(2)>>, <<Cos8(2), CNeg(Cos8(2))>>>>
    [] name = "p" ->
         LET h == HalfAngle(params[1])
         IN <<<<COne, CZero>>, <<CZero, Zeta(2 * h)>>>>
    [] name = "id" -> <<<<COne, CZero>>, <<CZero, COne>>>>
    [] name = "prepare_r" ->
         <<<<Cos8(2), Cos8(2)>>, <<CMul(CI, Cos8(2)), CMul(Zeta(12), Cos8(2))>>>>

\* the one-qubit matrix M on qubit q of the state psi
Apply1(M, q, psi) ==
  Once2(LAMBDA mat, v :
          Vector(LAMBDA k :
                   CAdd(CMul(mat[Bit(k, q) + 1][1], v[WithBit(k, q, 0)]),
                        CMul(mat[Bit(k, q) + 1][2], v[WithBit(k, q, 1)])),
                 Len(v)),
        M, psi)

\* M on qubit t where qubit c is 1
ApplyControlled(M, c, t, psi) ==
  Once2(LAMBDA rot, v :
          Vector(LAMBDA k : IF Bit(k, c) = 1 THEN rot[k] ELSE v[k], Len(v)),
        Apply1(M, t, psi), psi)

ControlledBase(name) ==
  CASE name = "crx" -> "rx" [] name = "cry" -> "ry" [] name = "crz" -> "rz"

IsControlled(name) == name \in {"crx", "cry", "crz"}

EvolveGate(g, psi) ==
  IF IsControlled(g.name)
    THEN ApplyControlled(Matrix(ControlledBase(g.name), g.params),
                         g.qargs[1], g.qargs[2], psi)
    ELSE Apply1(Matrix(g.name, g.params), g.qargs[1], psi)

EvolvePrimitive(g, psi) == Once2(EvolveGate, g, psi)

\* ops of a sub-circuit act on local qubits, mapped through its qargs
Flatten(g) ==
  IF g.name = "circuit"
    THEN [k \in 1..Len(g.ops) |->
            [g.ops[k] EXCEPT !.qargs =
               [m \in 1..Len(g.ops[k].qargs) |-> g.qargs[g.ops[k].qargs[m] + 1]]]]
    ELSE <<g>>

RECURSIVE EvolveFrom(_, _, _)
EvolveFrom(gs, k, psi) ==
  IF k > Len(gs) THEN psi
  ELSE Once(LAMBDA v : EvolveFrom(gs, k + 1, v), EvolvePrimitive(gs[k], psi))

EvolveSeq(gs, psi) == Once2(LAMBDA s, v : EvolveFrom(s, 1, v), gs, psi)

\* Statevector.evolve(circuit): gate after gate, a sub-circuit op after op
Evolve(circ, psi) ==
  EvolveSeq(Concat([k \in 1..Len(circ) |-> Flatten(circ[k])]), psi)

\* the basis state with index b
BasisState(b, n) == Vector(LAMBDA i : IF i = b + 1 THEN COne ELSE CZero, Pow2(n))

\* the one-qubit matrix that takes |0> to the state a label character names
Preparation(ch) ==
  CASE ch = "0" -> "id" [] ch = "1" -> "x" [] ch = "+" -> "h" [] ch = "r" -> "prepare_r"

RECURSIVE LabelFrom(_, _, _)
LabelFrom(label, q, psi) ==
  IF q > Len(label) THEN psi
  ELSE Once(LAMBDA v : LabelFrom(label, q + 1, v),
            Apply1(Matrix(Preparation(label[q]), <<>>), q - 1, psi))

\* Statevector.from_label: label[q + 1] is the state of qubit q
FromLabel(label) == LabelFrom(label, 1, BasisState(0, Len(label)))

RECURSIVE EvolveLabels(_, _, _)
EvolveLabels(label, q, psi) ==
  IF q > Len(label) THEN psi
  ELSE Once(LAMBDA v : EvolveLabels(label, q + 1, v),
            Apply1(Matrix(label[q], <<>>), q - 1, psi))

\* Statevector.evolve(Operator): the operator is a tensor product of
\* one-qubit matrices, label[q + 1] acting on qubit q
EvolveOperator(label, psi) == EvolveLabels(label, 1, psi)

RECURSIVE DotFrom(_, _, _)
DotFrom(u, v, k) ==
  IF k > Len(u) THEN CZero ELSE CAdd(CMul(CConj(u[k]), v[k]), DotFrom(u, v, k + 1))

\* lam.conjugate().data.dot(phi.data)
Dot(lamv, phiv) == Once2(LAMBDA u, v : DotFrom(u, v, 1), lamv, phiv)

\* Statevector.expectation_value(op)
ExpectationValue(label, psi) == Dot(psi, EvolveOperator(label, psi))

InverseParam(p) == [p EXCEPT !.val = 0 - p.val]

InversePrimitive(g) ==
  [g EXCEPT !.params = [i \in 1..Len(g.params) |-> InverseParam(g.params[i])]]

Reverse(s) == [i \in 1..Len(s) |-> s[Len(s) + 1 - i]]

InverseGate(g) ==
  IF g.name = "circuit"
    THEN [g EXCEPT !.ops = Reverse([k \in 1..Len(g.ops) |-> InversePrimitive(g.ops[k])])]
    ELSE InversePrimitive(g)

\* QuantumCircuit.inverse() of a bound circuit: a new circuit
Inverse(circ) ==
  Reverse([i \in 1..Len(circ) |-> [InverseGate(circ[i]) EXCEPT !.id = 0]])

(***************************************************************************)
(* gradient_lookup.py                                                      *)
(***************************************************************************)

None == "None"

Failed(e) == [err |-> e, terms |-> <<>>]
Returned(ts) == [err |-> "", terms |-> ts]

\* 0.5j * param_derivative and +-0.25j * param_derivative
HalfI(pd) == CMul(CHalf(CI), CInt(pd))
QuarterI(pd) == CMul(CHalf(CHalf(CI)), CInt(pd))

Pauli(name) == CASE name \in {"rx", "crx"} -> "x"
                 [] name \in {"ry", "cry"} -> "y"
                 [] name \in {"rz", "crz"} -> "z"

Supported == {"rx", "ry", "rz", "crx", "cry", "crz"}

\* gradient_lookup(gate) below: the terms [coeff, derivative circuit], or the
\* exception raised.  params[0] of a gate without parameters is an
\* IndexError; a bound number has neither .gradient nor .parameters.
LookupTerms(gate, param, param_derivative) ==
      IF gate.name \in {"rx", "ry", "rz"}
        THEN Returned(<<
               [coeff |-> HalfI(param_derivative),
                circuit |-> <<Gate(gate.name, <<param>>, <<0>>),
                              Gate(Pauli(gate.name), <<>>, <<0>>)>>]>>)
      ELSE IF gate.name \in {"crx", "cry", "crz"}
        THEN Returned(<<
               [coeff |-> QuarterI(param_derivative),
                circuit |-> <<Gate(ControlledBase(gate.name), <<param>>, <<1>>),
                              Gate(Pauli(gate.name), <<>>, <<1>>)>>],
               [coeff |-> CNeg(QuarterI(param_derivative)),
                circuit |-> <<Gate("z", <<>>, <<0>>),
                              Gate(ControlledBase(gate.name), <<param>>, <<1>>),
                              Gate(Pauli(gate.name), <<>>, <<1>>)>>]>>)
      ELSE Failed("NotImplementedError")

gradient_lookup(gate) ==
  IF Len(gate.params) = 0 THEN Failed("IndexError")
  ELSE IF gate.params[1].kind # "expr" THEN Failed("AttributeError")
  ELSE LookupTerms(gate, gate.params[1], gate.params[1].mult)

\* the condition of analytic_gradient's loop: "differentiate", "pass", or
\* the AttributeError of reading .parameters of a bound number
Classify(gate, parameter) ==
  IF parameter = None /\ Len(gate.params) > 0 THEN "differentiate"
  ELSE IF \E i \in 1..Len(gate.params) : gate.params[i].kind # "expr"
    THEN "AttributeError"
  ELSE IF parameter \in FreeOfGate(gate) THEN "differentiate"
  ELSE "pass"

\* summands[i] of analytic_gradient: the list of [coeff, gate] of gate i
Differentiated(r, gate) ==
  IF r.err # "" THEN r
  ELSE Returned([k \in 1..Len(r.terms) |->
                   [coeff |-> r.terms[k].coeff,
                    gate |-> SubCircuit(r.terms[k].circuit, gate.qargs)]])

Summand(gate, parameter) ==
  CASE Classify(gate, parameter) = "AttributeError" -> Failed("AttributeError")
    [] Classify(gate, parameter) = "differentiate" ->
         Once(LAMBDA r : Differentiated(r, gate), gradient_lookup(gate))
    [] OTHER -> Returned(<<[coeff |-> COne, gate |-> gate]>>)

RECURSIVE FirstError(_)
FirstError(rs) ==
  IF rs = <<>> THEN ""
  ELSE IF Head(rs).err # "" THEN Head(rs).err ELSE FirstError(Tail(rs))

RECURSIVE Product(_)
\* itertools.product(*summands): the last list varies fastest
Product(lists) ==
  IF lists = <<>> THEN << <<>> >>
  ELSE LET rest == Product(Tail(lists)) IN
       Concat([k \in 1..Len(Head(lists)) |->
                 [m \in 1..Len(rest) |-> <<Head(lists)[k]>> \o rest[m]]])

RECURSIVE CoeffProduct(_)
CoeffProduct(term) ==
  IF term = <<>> THEN COne ELSE CMul(Head(term).coeff, CoeffProduct(Tail(term)))

\* summand_circuit.append(a[1], ...) for every a, then summand_circuit.copy():
\* the circuit of a term holds new gate objects
SummandCircuit(term) == [i \in 1..Len(term) |-> [term[i].gate EXCEPT !.id = 0]]

\* the terms of the product: the coefficients multiplied, the gates in order
TermsOfProduct(prod) ==
  [k \in 1..Len(prod) |->
     [coeff |-> CoeffProduct(prod[k]), circuit |-> SummandCircuit(prod[k])]]

ExpandSummands(summands) ==
  IF FirstError(summands) # "" THEN Failed(FirstError(summands))
  ELSE Returned(Once(TermsOfProduct,
                     Product([k \in 1..Len(summands) |-> summands[k].terms])))

\* analytic_gradient(circuit, parameter)
analytic_gradient(circuit, parameter) ==
  IF parameter # None /\ parameter \notin FreeOfCircuit(circuit)
    THEN Failed("ValueError")
    ELSE Once(ExpandSummands,
              [k \in 1..Len(circuit) |-> Summand(circuit[k], parameter)])

(***************************************************************************)
(* Binding                                                                 *)
(***************************************************************************)

BindParam(p, value) ==
  IF p.kind = "expr" THEN Num(p.mult * value[p.par]) ELSE p

BindPrimitive(g, value) ==
  [g EXCEPT !.params = [i \in 1..Len(g.params) |-> BindParam(g.params[i], value)]]

BindGate(g, value) ==
  [BindPrimitive(g, value) EXCEPT
     !.ops = [k \in 1..Len(g.ops) |-> BindPrimitive(g.ops[k], value)]]

\* circuit.assign_parameters(values, inplace): [circuit, mutated].  Not in
\* place, the result is a new circuit of new gate objects and nothing is
\* mutated; in place, the gate objects of the circuit itself are rebound.
assign_parameters(circ, value, inplace) ==
  IF inplace
    THEN Once(LAMBDA bound : [circuit |-> bound, mutated |-> bound],
              [k \in 1..Len(circ) |-> BindGate(circ[k], value)])
    ELSE [circuit |-> [k \in 1..Len(circ) |-> [BindGate(circ[k], value) EXCEPT !.id = 0]],
          mutated |-> <<>>]

\* what a field holding gate objects reads after the objects in `mutated`
\* were changed in place: a gate object is found by its identity
Reread(circ, mutated) ==
  [i \in 1..Len(circ) |->
     IF circ[i].id # 0 /\ \E k \in 1..Len(mutated) : mutated[k].id = circ[i].id
       THEN mutated[CHOOSE m \in 1..Len(mutated) : mutated[m].id = circ[i].id]
       ELSE circ[i]]

(***************************************************************************)
(* Circuit Splitter (split_circuit.split): one block per gate that depends *)
(* on a target parameter, holding the gates since the previous block; the  *)
(* parameter list is aligned with the blocks.  The blocks hold gate        *)
(* objects of their own, numbered after those of the ansatz.               *)
(***************************************************************************)

TargetsOf(g, targets) ==
  SelectSeq(targets, LAMBDA t : t \in FreeOfGate(g))

RECURSIVE SplitFrom(_, _, _, _, _, _)
SplitFrom(circ, targets, k, sub, blocks, plist) ==
  IF k > Len(circ)
    THEN IF sub = <<>> \/ blocks = <<>>
           THEN [unitaries |-> blocks, paramlist |-> plist]
           ELSE [unitaries |-> [blocks EXCEPT ![Len(blocks)] = @ \o sub],
                 paramlist |-> plist]
  ELSE LET g == [circ[k] EXCEPT !.id = Len(circ) + k]
           ps == TargetsOf(g, targets)
       IN IF ps # <<>>
            THEN SplitFrom(circ, targets, k + 1, <<>>,
                           Append(blocks, Append(sub, g)), Append(plist, ps))
            ELSE SplitFrom(circ, targets, k + 1, Append(sub, g), blocks, plist)

split(circ, targets) == SplitFrom(circ, targets, 1, <<>>, <<>>, <<>>)

\* list(circuit.parameters): the free Parameters, sorted by name
ParamOrder == <<"a", "b">>
ParametersOf(circ) == SelectSeq(ParamOrder, LAMBDA t : t \in FreeOfCircuit(circ))

\* a circuit as the caller builds it: its gate objects are numbered 1..n
Built(gs) == [i \in 1..Len(gs) |-> [gs[i] EXCEPT !.id = i]]

Index(list, x) == CHOOSE i \in 1..Len(list) : list[i] = x

(***************************************************************************)
(* Product-rule accumulator (both classes): a dict keyed by the first      *)
(* parameter of each block, in insertion order                             *)
(***************************************************************************)

\* grads[param] = grad: the last occurrence wins
DictSet(d, param, grad) ==
  IF \E i \in 1..Len(d.keys) : d.keys[i] = param
    THEN [d EXCEPT !.values[Index(d.keys, param)] = grad]
    ELSE [keys |-> Append(d.keys, param), values |-> Append(d.values, grad)]

\* grads[param] = grads.get(param, 0) + grad
DictAdd(d, param, grad) ==
  IF \E i \in 1..Len(d.keys) : d.keys[i] = param
    THEN [d EXCEPT !.values[Index(d.keys, param)] = CAdd(@, grad)]
    ELSE [keys |-> Append(d.keys, param), values |-> Append(d.values, grad)]

RECURSIVE AccumulateFrom(_, _, _, _)
AccumulateFrom(paramlist, gradients, k, d) ==
  IF k > Len(paramlist) \/ k > Len(gradients) THEN d
  ELSE AccumulateFrom(paramlist, gradients, k + 1,
                      DictAdd(d, paramlist[k][1], gradients[k]))

\* _accumulate_product_rule(gradients): [values, keys]
accumulate_product_rule(paramlist, gradients) ==
  AccumulateFrom(paramlist, gradients, 1, [keys |-> <<>>, values |-> <<>>])

(***************************************************************************)
(* State                                                                   *)
(***************************************************************************)

VARIABLES
  self,                \* the engine: operator, ansatz, state_in, unitaries, paramlist
  environ,             \* os.environ["ESTADO_GLOBAL_EN_ENTRENAMIENTO"], or "unset"
  pc,                  \* where the running call is
  raised,              \* the exception that ended the call, "" if none
  parameter_binds,     \* the row (a sequence) or the dict (a function) being evaluated
  phi, lam, e,         \* locals of the running evaluation
  in_training_loop,
  j, grads,
  bound_unitaries,     \* reference_gradients: the bound blocks
  iterative_result,    \* what iterative_gradients returned
  reference_result,    \* what reference_gradients returned
  rows,                \* gradients(parameter_binds): the batch
  i,                   \* rows consumed from map_func(...)
  map_func,
  expectation_values,
  batch_grads,
  yielded,             \* what gradients_single returned, row by row
  returned,            \* what gradients returned
  call                 \* a call of one of the pure functions, with its result

vars == <<self, environ, pc, raised, parameter_binds, phi, lam, e,
          in_training_loop, j, grads, bound_unitaries, iterative_result,
          reference_result, rows, i, map_func, expectation_values,
          batch_grads, yielded, returned, call>>

engineVars == <<bound_unitaries, iterative_result, reference_result>>
batchVars == <<rows, i, map_func, expectation_values, batch_grads, yielded, returned>>
sweepVars == <<parameter_binds, phi, lam, e, in_training_loop, j, grads>>

NoList == [none |-> TRUE, list |-> <<>>]
SomeList(l) == [none |-> FALSE, list |-> l]

RECURSIVE SumTerms(_, _, _, _)
\* sum of coeff * <lam | psi evolved through the term's circuit>
SumTerms(terms, lamv, psi, k) ==
  IF k > Len(terms) THEN CZero
  ELSE CAdd(CMul(terms[k].coeff, Dot(lamv, Evolve(terms[k].circuit, psi))),
            SumTerms(terms, lamv, psi, k + 1))

(***************************************************************************)
(* BackpropagationStateGradient                                            *)
(***************************************************************************)

\* __init__(operator, ansatz)
BackpropagationStateGradient(operator, ansatz, num_qubits) ==
  Once(LAMBDA sp :
         [operator |-> operator, ansatz |-> ansatz, num_qubits |-> num_qubits,
          state_in |-> [q \in 1..num_qubits |-> "0"],
          unitaries |-> sp.unitaries, paramlist |-> sp.paramlist],
       split(ansatz, ParametersOf(ansatz)))

\* self._bind(circuit, parameter_binds, inplace): the values are picked from
\* the row by the position of each parameter in self.ansatz.parameters
self_bind(eng, circuit, row, inplace) ==
  assign_parameters(circuit,
                    [q \in FreeOfCircuit(circuit) |->
                       row[Index(ParametersOf(eng.ansatz), q)]],
                    inplace)

\* uj_dagger = self._bind(uj, parameter_binds).inverse(): the bound block
BindBlockInplace(eng, uj, row) == self_bind(eng, uj, row, TRUE)
BindBlock(eng, uj, row) == self_bind(eng, uj, row, FALSE)

\* grad and the states after the iteration, given the bound derivative
\* terms and the inverse of the bound block
StepResult(jj, phi1, lam0, terms, uj_dagger, mutated) ==
  [err |-> "",
   phi |-> phi1,
   grad |-> TwiceReal(SumTerms(terms, lam0, phi1, 1)),
   lam |-> IF jj > 0 THEN Evolve(uj_dagger, lam0) ELSE lam0,
   mutated |-> mutated]

StepFailed(err, phi0, lam0) ==
  [err |-> err, phi |-> phi0, lam |-> lam0, grad |-> CZero, mutated |-> <<>>]

\* the derivative terms after `self._bind(gate, parameter_binds, inplace=True)`
BoundTerms(eng, terms, row) ==
  [k \in 1..Len(terms) |->
     [coeff |-> terms[k].coeff,
      bound |-> self_bind(eng, terms[k].circuit, row, TRUE)]]

\* one iteration of the reverse loop of gradients_single, for block j
BackpropStep(eng, row, jj, phi0, lam0) ==
  Once(LAMBDA deriv :
    IF deriv.err # "" THEN StepFailed(deriv.err, phi0, lam0)
    ELSE Once2(LAMBDA bd, bj :
           Once2(LAMBDA uj_dagger, terms :
                   StepResult(jj, Evolve(uj_dagger, phi0), lam0, terms, uj_dagger,
                              Concat([k \in 1..Len(bd) |-> bd[k].bound.mutated])
                                \o bj.mutated),
                 Inverse(bj.circuit),
                 [k \in 1..Len(bd) |->
                    [coeff |-> bd[k].coeff, circuit |-> bd[k].bound.circuit]]),
           BoundTerms(eng, deriv.terms, row),
           BindBlock(eng, eng.unitaries[jj + 1], row)),
    analytic_gradient(eng.unitaries[jj + 1], eng.paramlist[jj + 1][1]))

\* the engine's fields after gate objects were changed in place
AfterMutation(eng, mutated) ==
  [eng EXCEPT !.ansatz = Reread(@, mutated),
              !.unitaries = [b \in 1..Len(@) |-> Reread(@[b], mutated)]]

\* os.environ.get("ESTADO_GLOBAL_EN_ENTRENAMIENTO", "True") == "True"
InTrainingLoop(env) == (IF env = "unset" THEN "True" ELSE env) = "True"

\* ret_snd of gradients_single: the accumulated gradients in the order of
\* self.ansatz.parameters
Reindexed(eng, gs) ==
  Once2(LAMBDA acc, names :
          [k \in 1..Len(names) |-> acc.values[Index(acc.keys, names[k])]],
        accumulate_product_rule(eng.paramlist, Reverse(gs)),
        ParametersOf(eng.ansatz))

\* the threshold of the dispatch that is commented out: lines 72-77
DispatchThreshold == 300

\* the dispatch by batch size of the commented lines
ThresholdMapFunc(batch_size) ==
  IF batch_size <= DispatchThreshold THEN "map" ELSE "executor.map"

\* map_func = map
ChooseMapFunc(batch_size) == "map"

\* gradients(parameter_binds) is called: lines 69-78
Gradients ==
  /\ pc = "call"
  /\ expectation_values' = <<>>
  /\ batch_grads' = <<>>
  /\ map_func' = ChooseMapFunc(Len(rows))
  /\ i' = 0
  /\ pc' = "map"
  /\ UNCHANGED <<self, environ, raised, sweepVars, engineVars, rows, yielded,
                 returned, call>>

\* map_func calls gradients_single on the next row: lines 28-41
SingleBegin ==
  /\ pc = "map"
  /\ i < Len(rows)
  /\ \E phi0 \in {Evolve(self_bind(self, self.ansatz, rows[i + 1], FALSE).circuit,
                           FromLabel(self.state_in))} :
        /\ parameter_binds' = rows[i + 1]
        /\ phi' = phi0
        /\ lam' = EvolveOperator(self.operator, phi0)
        /\ e' = ExpectationValue(self.operator, phi0)
        /\ in_training_loop' = InTrainingLoop(environ)
        /\ grads' = <<>>
        /\ j' = Len(self.unitaries) - 1
        /\ pc' = IF InTrainingLoop(environ) /\ Len(self.unitaries) > 0
                   THEN "loop" ELSE "return"
  /\ UNCHANGED <<self, environ, raised, engineVars, batchVars, call>>

\* one iteration of `for j in reversed(range(num_parameters))`: lines 42-61
SingleStep ==
  /\ pc = "loop"
  /\ j >= 0
  /\ \E st \in {BackpropStep(self, parameter_binds, j, phi, lam)} :
        IF st.err # ""
          THEN /\ raised' = st.err
               /\ pc' = "raised"
               /\ UNCHANGED <<self, phi, lam, grads, j>>
          ELSE /\ self' = AfterMutation(self, st.mutated)
               /\ phi' = st.phi
               /\ lam' = st.lam
               /\ grads' = Append(grads, st.grad)
               /\ j' = j - 1
               /\ pc' = IF j = 0 THEN "return" ELSE "loop"
               /\ UNCHANGED raised
  /\ UNCHANGED <<environ, parameter_binds, e, in_training_loop, engineVars,
                 batchVars, call>>

\* gradients_single returns (lines 63-66) and the loop of gradients takes
\* the pair (lines 79-82)
SingleReturn ==
  /\ pc = "return"
  /\ \E ret_snd \in {IF in_training_loop THEN SomeList(Reindexed(self, grads))
                                            ELSE NoList} :
        /\ yielded' = Append(yielded, [e |-> e, grad |-> ret_snd])
        /\ expectation_values' = Append(expectation_values, e)
        /\ batch_grads' = IF ret_snd.none THEN batch_grads
                                          ELSE Append(batch_grads, ret_snd.list)
  /\ i' = i + 1
  /\ pc' = "map"
  /\ UNCHANGED <<self, environ, raised, sweepVars, engineVars, rows, map_func,
                 returned, call>>

\* the rows are exhausted: lines 83-89
GradientsReturn ==
  /\ pc = "map"
  /\ i = Len(rows)
  /\ returned' = [expectation_values |-> expectation_values,
                  grads |-> IF Len(batch_grads) = 0 THEN NoList
                                                    ELSE SomeList(batch_grads)]
  /\ pc' = "done"
  /\ UNCHANGED <<self, environ, raised, sweepVars, engineVars, rows, i, map_func,
                 expectation_values, batch_grads, yielded, call>>

\* the process sets the flag while a batch is running
SetEnviron ==
  /\ pc \in {"call", "map", "loop", "return"}
  /\ \E v \in {"True", "False"} : v # environ /\ environ' = v
  /\ UNCHANGED <<self, pc, raised, sweepVars, engineVars, batchVars, call>>

(***************************************************************************)
(* StateGradient                                                           *)
(***************************************************************************)

\* __init__(operator, ansatz, state_in, target_parameters), with a list of
\* target parameters
StateGradient(operator, ansatz, state_in, target_parameters) ==
  Once(LAMBDA sp :
         [operator |-> operator, ansatz |-> ansatz, num_qubits |-> Len(state_in),
          state_in |-> state_in, unitaries |-> sp.unitaries,
          paramlist |-> sp.paramlist],
       split(ansatz, target_parameters))

\* _bind(circuit, parameter_binds, inplace) of one circuit: the dict is
\* cut down to the circuit's own parameters
bind(circuit, binds, inplace) ==
  assign_parameters(circuit, [q \in FreeOfCircuit(circuit) |-> binds[q]], inplace)

\* the derivative terms after `_bind(gate, parameter_binds, inplace=True)`
DictBoundTerms(terms, binds) ==
  [k \in 1..Len(terms) |->
     [coeff |-> terms[k].coeff, bound |-> bind(terms[k].circuit, binds, TRUE)]]

\* the bound block, not inverted
BoundNotInverted(uj, binds) == bind(uj, binds, FALSE).circuit

\* uj_dagger = _bind(uj, parameter_binds).inverse()
InverseOfBound(uj, binds) == Inverse(bind(uj, binds, FALSE).circuit)

\* lam un-evolved after every block, block 0 included
UnevolveLamAlways(jj, lam0, uj_dagger) == Evolve(uj_dagger, lam0)

\* lam after block j: `if j > 0: lam = lam.evolve(uj_dagger)`
UnevolveLam(jj, lam0, uj_dagger) ==
  IF jj > 0 THEN Evolve(uj_dagger, lam0) ELSE lam0

\* one iteration of the reverse loop of iterative_gradients, for block j
IterativeStep(eng, binds, jj, phi0, lam0) ==
  Once(LAMBDA deriv :
    IF deriv.err # "" THEN StepFailed(deriv.err, phi0, lam0)
    ELSE Once2(LAMBDA bd, uj_dagger :
           Once2(LAMBDA phi1, terms :
                   [err |-> "",
                    phi |-> phi1,
                    grad |-> TwiceReal(SumTerms(terms, lam0, phi1, 1)),
                    lam |-> UnevolveLam(jj, lam0, uj_dagger),
                    mutated |-> Concat([k \in 1..Len(bd) |-> bd[k].bound.mutated])],
                 Evolve(uj_dagger, phi0),
                 [k \in 1..Len(bd) |->
                    [coeff |-> bd[k].coeff, circuit |-> bd[k].bound.circuit]]),
           DictBoundTerms(deriv.terms, binds),
           InverseOfBound(eng.unitaries[jj + 1], binds)),
    analytic_gradient(eng.unitaries[jj + 1], eng.paramlist[jj + 1][1]))

\* dj_unitaries: the bound blocks with block j replaced by the term's circuit
Spliced(bound, jj, gate) ==
  Concat(SubSeq(bound, 1, jj)) \o gate \o Concat(SubSeq(bound, jj + 2, Len(bound)))

RECURSIVE SumSpliced(_, _, _, _, _, _)
\* sum of coeff * <lam | init evolved through dj_unitaries>
SumSpliced(terms, bound, jj, lamv, init, k) ==
  IF k > Len(terms) THEN CZero
  ELSE CAdd(CMul(terms[k].coeff,
                 Dot(lamv, Evolve(Spliced(bound, jj, terms[k].circuit), init))),
            SumSpliced(terms, bound, jj, lamv, init, k + 1))

\* one iteration of the loop of reference_gradients, for block j
ReferenceStep(eng, binds, bound, jj, lamv) ==
  Once(LAMBDA deriv :
    IF deriv.err # "" THEN [err |-> deriv.err, grad |-> CZero, mutated |-> <<>>]
    ELSE Once(LAMBDA bd :
           [err |-> "",
            grad |-> TwiceReal(SumSpliced(
                       [k \in 1..Len(bd) |->
                          [coeff |-> bd[k].coeff, circuit |-> bd[k].bound.circuit]],
                       bound, jj, lamv,
                       FromLabel(eng.state_in), 1)),
            mutated |-> Concat([k \in 1..Len(bd) |-> bd[k].bound.mutated])],
           DictBoundTerms(deriv.terms, binds)),
    analytic_gradient(eng.unitaries[jj + 1], eng.paramlist[jj + 1][1]))

\* what both methods return: the gradients per block when the dict is
\* empty, else the accumulated gradients
Result(eng, binds, gs) ==
  IF DOMAIN binds = {} THEN gs
  ELSE accumulate_product_rule(eng.paramlist, gs).values

\* iterative_gradients(parameter_binds) is called: lines 89-106
IterativeBegin ==
  /\ pc = "call_iterative"
  /\ \E phi0 \in {Evolve(bind(self.ansatz, parameter_binds, FALSE).circuit,
                         FromLabel(self.state_in))} :
        /\ phi' = phi0
        /\ lam' = EvolveOperator(self.operator, phi0)
  /\ grads' = <<>>
  /\ j' = Len(self.unitaries) - 1
  /\ pc' = IF Len(self.unitaries) > 0 THEN "iterative_loop" ELSE "iterative_return"
  /\ UNCHANGED <<self, environ, raised, parameter_binds, e, in_training_loop,
                 engineVars, batchVars, call>>

\* one iteration of `for j in reversed(range(num_parameters))`: lines 107-124
IterativeLoop ==
  /\ pc = "iterative_loop"
  /\ j >= 0
  /\ \E st \in {IterativeStep(self, parameter_binds, j, phi, lam)} :
        IF st.err # ""
          THEN /\ raised' = st.err
               /\ pc' = "raised"
               /\ UNCHANGED <<self, phi, lam, grads, j>>
          ELSE /\ self' = AfterMutation(self, st.mutated)
               /\ phi' = st.phi
               /\ lam' = st.lam
               /\ grads' = Append(grads, st.grad)
               /\ j' = j - 1
               /\ pc' = IF j = 0 THEN "iterative_return" ELSE "iterative_loop"
               /\ UNCHANGED raised
  /\ UNCHANGED <<environ, parameter_binds, e, in_training_loop, engineVars,
                 batchVars, call>>

\* iterative_gradients returns: lines 126-134
IterativeReturn ==
  /\ pc = "iterative_return"
  /\ iterative_result' = Result(self, parameter_binds, Reverse(grads))
  /\ pc' = "call_reference"
  /\ UNCHANGED <<self, environ, raised, sweepVars, bound_unitaries,
                 reference_result, batchVars, call>>

\* reference_gradients(parameter_binds) is called: lines 45-64
ReferenceBegin ==
  /\ pc = "call_reference"
  /\ bound_unitaries' = [b \in 1..Len(self.unitaries) |->
                           bind(self.unitaries[b], parameter_binds, FALSE).circuit]
  /\ lam' = EvolveOperator(self.operator,
                           Evolve(bind(self.ansatz, parameter_binds, FALSE).circuit,
                                  FromLabel(self.state_in)))
  /\ grads' = <<>>
  /\ j' = 0
  /\ pc' = IF Len(self.unitaries) > 0 THEN "reference_loop" ELSE "reference_return"
  /\ UNCHANGED <<self, environ, raised, parameter_binds, phi, e, in_training_loop,
                 iterative_result, reference_result, batchVars, call>>

\* one iteration of `for j in range(num_parameters)`: lines 65-77
ReferenceLoop ==
  /\ pc = "reference_loop"
  /\ j < Len(self.unitaries)
  /\ \E st \in {ReferenceStep(self, parameter_binds, bound_unitaries, j, lam)} :
        IF st.err # ""
          THEN /\ raised' = st.err
               /\ pc' = "raised"
               /\ UNCHANGED <<self, grads, j>>
          ELSE /\ self' = AfterMutation(self, st.mutated)
               /\ grads' = Append(grads, st.grad)
               /\ j' = j + 1
               /\ pc' = IF j + 1 = Len(self.unitaries) THEN "reference_return"
                                                       ELSE "reference_loop"
               /\ UNCHANGED raised
  /\ UNCHANGED <<environ, parameter_binds, phi, lam, e, in_training_loop,
                 engineVars, batchVars, call>>

\* reference_gradients returns: lines 79-86
ReferenceReturn ==
  /\ pc = "reference_return"
  /\ reference_result' = Result(self, parameter_binds, grads)
  /\ pc' = "done"
  /\ UNCHANGED <<self, environ, raised, sweepVars, bound_unitaries,
                 iterative_result, batchVars, call>>

(***************************************************************************)
(* The batch driver: specification SpecBatch                               *)
(***************************************************************************)

MaxBatch == 2

\* the engines the batches run on: the circuit, its width, the observable
\* (label[q + 1] acts on qubit q) and the angles (in units of pi/4) the
\* rows are drawn from
BatchEngines ==
  { [gates |-> <<Gate("rx", <<Expr("a", 1)>>, <<0>>)>>,
     num_qubits |-> 1, operator |-> <<"z">>, values |-> {0, 1, 2, 4}],
    [gates |-> <<Gate("rx", <<Expr("a", 1)>>, <<0>>),
                 Gate("rx", <<Expr("a", 1)>>, <<1>>)>>,
     num_qubits |-> 2, operator |-> <<"z", "z">>, values |-> {1, 2, 3}],
    [gates |-> <<Gate("h", <<>>, <<0>>),
                 Gate("crx", <<Expr("b", 1)>>, <<0, 1>>),
                 Gate("ry", <<Expr("a", 2)>>, <<1>>)>>,
     num_qubits |-> 2, operator |-> <<"x", "z">>, values |-> {1, 2}],
    [gates |-> <<Gate("ry", <<Expr("a", 1)>>, <<0>>),
                 Gate("p", <<Expr("b", 1)>>, <<0>>)>>,
     num_qubits |-> 1, operator |-> <<"x">>, values |-> {1}],
    [gates |-> <<Gate("rx", <<Num(1)>>, <<0>>),
                 Gate("rz", <<Expr("a", 1)>>, <<0>>)>>,
     num_qubits |-> 1, operator |-> <<"y">>, values |-> {1}] }

SeqsUpTo(S, n) == UNION {[1..m -> S] : m \in 0..n}

BatchesOf(c) ==
  SeqsUpTo([1..Len(ParametersOf(c.gates)) -> c.values], MaxBatch)

Idle ==
  /\ raised = ""
  /\ phi = <<>>
  /\ lam = <<>>
  /\ e = CZero
  /\ in_training_loop = FALSE
  /\ j = 0
  /\ grads = <<>>
  /\ bound_unitaries = <<>>
  /\ iterative_result = <<>>
  /\ reference_result = <<>>
  /\ i = 0
  /\ map_func = ""
  /\ expectation_values = <<>>
  /\ batch_grads = <<>>
  /\ yielded = <<>>
  /\ returned = <<>>

InitBatch ==
  /\ \E c \in BatchEngines :
       /\ self = BackpropagationStateGradient(c.operator, Built(c.gates), c.num_qubits)
       /\ rows \in BatchesOf(c)
  /\ environ \in {"unset", "True", "False"}
  /\ pc = "call"
  /\ parameter_binds = <<>>
  /\ call = <<>>
  /\ Idle

NextBatch ==
  \/ Gradients
  \/ SingleBegin
  \/ SingleStep
  \/ SingleReturn
  \/ GradientsReturn
  \/ SetEnviron

SpecBatch == InitBatch /\ [][NextBatch]_vars

(***************************************************************************)
(* The two engines of StateGradient on one input: specification            *)
(* SpecEngines                                                             *)
(***************************************************************************)

MaxGates == 2

EngineGates ==
  { Gate("rx", <<Expr("a", 1)>>, <<0>>),
    Gate("ry", <<Expr("b", 1)>>, <<1>>),
    Gate("rz", <<Expr("a", 2)>>, <<1>>),
    Gate("crx", <<Expr("b", 1)>>, <<0, 1>>),
    Gate("cry", <<Expr("a", 1)>>, <<1, 0>>),
    Gate("crz", <<Expr("b", 1)>>, <<1, 0>>) }

EngineAngles == {1, 2}
\* the bindings: a dict with a value for every Parameter, the two differing
EngineBinds == {b \in [Parameters -> EngineAngles] : b["a"] # b["b"]}
EngineOperators == {<<"h", "h">>}
EngineStates == {<<"+", "r">>}

\* the target parameter lists whose last block ends the circuit
TargetLists(gs) ==
  {t \in {ParametersOf(gs)} \cup {<<q>> : q \in FreeOfCircuit(gs)} :
     TargetsOf(gs[Len(gs)], t) # <<>>}

InitEngines ==
  /\ \E gs \in UNION {[1..n -> EngineGates] : n \in 1..MaxGates} :
     \E t \in TargetLists(gs) :
     \E o \in EngineOperators :
     \E init \in EngineStates :
       self = StateGradient(o, Built(gs), init, t)
  /\ parameter_binds \in EngineBinds
  /\ environ = "unset"
  /\ pc = "call_iterative"
  /\ rows = <<>>
  /\ call = <<>>
  /\ Idle

NextEngines ==
  \/ IterativeBegin
  \/ IterativeLoop
  \/ IterativeReturn
  \/ ReferenceBegin
  \/ ReferenceLoop
  \/ ReferenceReturn

SpecEngines == InitEngines /\ [][NextEngines]_vars

(***************************************************************************)
(* The pure functions on drawn inputs: specification SpecLookup            *)
(***************************************************************************)

MaxBlockGates == 2
MaxBlocks == 3

\* the gates gradient_lookup is called on
LookupGates ==
  {Gate(n, <<q>>, <<0>>) :
     n \in {"rx", "ry", "rz", "p"}, q \in {Expr("a", 1), Expr("b", 2), Num(1)}}
  \cup {Gate(n, <<q>>, <<0, 1>>) :
     n \in {"crx", "cry", "crz"}, q \in {Expr("a", 1), Num(1)}}
  \cup {Gate("h", <<>>, <<0>>)}

\* the gates of the blocks analytic_gradient is called on
BlockGates ==
  {Gate(n, <<q>>, <<0>>) :
     n \in {"rx", "ry", "p"}, q \in {Expr("a", 1), Expr("b", 2), Num(1)}}
  \cup {Gate(n, <<q>>, <<0, 1>>) :
     n \in {"crx", "crz"}, q \in {Expr("a", 1), Expr("b", 1)}}
  \cup {Gate("h", <<>>, <<1>>)}

\* blocks that hold a gate with a parameter
Blocks ==
  {b \in UNION {[1..n -> BlockGates] : n \in 1..MaxBlockGates} :
     \E k \in 1..Len(b) : Len(b[k].params) > 0}

\* per-block derivatives (whole numbers) aligned with per-block parameters
Derivatives == {-3, 1, 2}
Accumulations ==
  UNION {[1..n -> {<<"a">>, <<"b">>}] \X [1..n -> Derivatives] : n \in 1..MaxBlocks}

Pending(fn, args) == [fn |-> fn, args |-> args, done |-> FALSE, result |-> <<>>]

InitLookup ==
  /\ call \in {Pending("gradient_lookup", <<g>>) : g \in LookupGates}
         \cup {Pending("analytic_gradient", <<b, q>>) :
                 b \in Blocks, q \in {None, "a", "b"}}
         \cup {Pending("_accumulate_product_rule", x) : x \in Accumulations}
  /\ self = <<>>
  /\ environ = "unset"
  /\ pc = "pure"
  /\ parameter_binds = <<>>
  /\ rows = <<>>
  /\ Idle

Finish(result) ==
  /\ call' = [call EXCEPT !.done = TRUE, !.result = result]
  /\ UNCHANGED <<self, environ, pc, raised, sweepVars, engineVars, batchVars>>

CallGradientLookup ==
  /\ call.fn = "gradient_lookup"
  /\ ~call.done
  /\ Finish(gradient_lookup(call.args[1]))

CallAnalyticGradient ==
  /\ call.fn = "analytic_gradient"
  /\ ~call.done
  /\ Finish(analytic_gradient(call.args[1], call.args[2]))

\* the derivatives are numbers: n stands for itself
CallAccumulate ==
  /\ call.fn = "_accumulate_product_rule"
  /\ ~call.done
  /\ Finish(accumulate_product_rule(
              call.args[1],
              [k \in 1..Len(call.args[2]) |-> CInt(call.args[2][k])]))

NextLookup ==
  \/ CallGradientLookup
  \/ CallAnalyticGradient
  \/ CallAccumulate

SpecLookup == InitLookup /\ [][NextLookup]_vars

(***************************************************************************)
(* Batches around the dispatch threshold: specification SpecDispatch       *)
(***************************************************************************)

DispatchSizes == {DispatchThreshold - 1, DispatchThreshold, DispatchThreshold + 1}

InitDispatch ==
  /\ self = BackpropagationStateGradient(
              <<"z">>, Built(<<Gate("rx", <<Expr("a", 1)>>, <<0>>)>>), 1)
  /\ rows \in {[k \in 1..n |-> <<1>>] : n \in DispatchSizes}
  /\ environ \in {"unset", "False"}
  /\ pc = "call"
  /\ parameter_binds = <<>>
  /\ call = <<>>
  /\ Idle

NextDispatch ==
  \/ Gradients
  \/ SingleBegin
  \/ SingleStep
  \/ SingleReturn
  \/ GradientsReturn

SpecDispatch == InitDispatch /\ [][NextDispatch]_vars

(***************************************************************************)
(* Properties of the batch driver (SpecBatch, SpecDispatch)                *)
(***************************************************************************)

\* the engine of the single RX gate on |0> with observable Z
IsSingleRx(eng) ==
  /\ Len(eng.ansatz) = 1
  /\ eng.ansatz[1].name = "rx"
  /\ eng.ansatz[1].params = <<Expr("a", 1)>>
  /\ eng.operator = <<"z">>

\* C2: for the single RX(theta) gate on |0> with observable Z, every row
\* theta evaluated in training mode yields the expectation value cos(theta)
\* and the one-component gradient -sin(theta)
RxDerivative ==
  \A k \in 1..Len(yielded) :
    IsSingleRx(self) /\ ~yielded[k].grad.none =>
      /\ yielded[k].e = Cos8(2 * rows[k][1])
      /\ yielded[k].grad.list = <<CNeg(Sin8(2 * rows[k][1]))>>

\* C4: when gradients has returned, the k-th returned expectation value and
\* the k-th returned gradient vector are what gradients_single returned for
\* the k-th row, for every k
OutputsAligned ==
  pc = "done" =>
    /\ \A k \in 1..Len(returned.expectation_values) :
         k <= Len(yielded) /\ returned.expectation_values[k] = yielded[k].e
    /\ ~returned.grads.none =>
         \A k \in 1..Len(returned.grads.list) :
           /\ k <= Len(yielded)
           /\ ~yielded[k].grad.none
           /\ returned.grads.list[k] = yielded[k].grad.list

\* C10: when gradients has returned for N rows, it returned N expectation
\* values, and gradients that are None or a list of N vectors
LengthsAgree ==
  pc = "done" =>
    /\ Len(returned.expectation_values) = Len(rows)
    /\ returned.grads.none \/ Len(returned.grads.list) = Len(rows)

\* C7: no step of a batch changes self.unitaries, self.paramlist or
\* self.ansatz
EngineUnchanged ==
  [][/\ self'.unitaries = self.unitaries
     /\ self'.paramlist = self.paramlist
     /\ self'.ansatz = self.ansatz]_vars

\* two different rows were evaluated in training mode on an engine of two
\* blocks or more, whose blocks still hold their free parameters
EngineUnchangedWitness ==
  /\ pc = "done"
  /\ Len(self.unitaries) >= 2
  /\ Len(rows) = 2
  /\ rows[1] # rows[2]
  /\ ~returned.grads.none
  /\ Len(returned.grads.list) = 2
  /\ \A b \in 1..Len(self.unitaries) : FreeOfCircuit(self.unitaries[b]) # {}

BothAgree ==
  pc = "done" =>
    /\ Len(iterative_result) = Len(reference_result)
    /\ \A k \in 1..Len(iterative_result) : iterative_result[k] = reference_result[k]

\* two blocks, one of them a controlled rotation, and two non-zero
\* components returned by both methods
BothAgreeWitness ==
  /\ pc = "done"
  /\ Len(self.unitaries) = 2
  /\ \E b \in 1..2 : IsControlled(self.unitaries[b][Len(self.unitaries[b])].name)
  /\ Len(reference_result) = 2
  /\ reference_result[1] # CZero
  /\ reference_result[2] # CZero
  /\ iterative_result = reference_result

\* the bound blocks, and the states the claim C9 speaks of
BoundBlocks(eng, binds) ==
  [b \in 1..Len(eng.unitaries) |-> bind(eng.unitaries[b], binds, FALSE).circuit]

\* the initial state evolved through the bound blocks 0..jj
ForwardThrough(eng, binds, jj) ==
  Evolve(Concat(SubSeq(BoundBlocks(eng, binds), 1, jj + 1)), FromLabel(eng.state_in))

\* O applied to the fully evolved state, un-evolved by the inverses of the
\* blocks last, ..., jj + 1 in that order
BackwardThrough(eng, binds, jj) ==
  Evolve(Inverse(Concat(SubSeq(BoundBlocks(eng, binds), jj + 2, Len(eng.unitaries)))),
         EvolveOperator(eng.operator,
                        ForwardThrough(eng, binds, Len(eng.unitaries) - 1)))

\* C9: at the start of iteration j of the reverse sweep phi is the initial
\* state evolved through the bound blocks 0..j and lam is O applied to the
\* fully evolved state un-evolved by the inverses of the blocks j+1..last;
\* when the sweep has ended lam is still the one of iteration 0 (it is not
\* un-evolved after block 0)
SweepInvariant ==
  /\ pc = "iterative_loop" =>
       /\ phi = ForwardThrough(self, parameter_binds, j)
       /\ lam = BackwardThrough(self, parameter_binds, j)
  /\ pc = "iterative_return" /\ Len(self.unitaries) > 0 =>
       lam = BackwardThrough(self, parameter_binds, 0)

\* the sweep has ended over two blocks, and un-evolving lam by block 0
\* would have given another state
SweepWitness ==
  /\ pc = "iterative_return"
  /\ Len(self.unitaries) = 2
  /\ lam # EvolveOperator(self.operator, ForwardThrough(self, parameter_binds, 1))
  /\ lam # BackwardThrough(self, parameter_binds, -1)

(***************************************************************************)
(* Properties of the pure functions (SpecLookup)                           *)
(***************************************************************************)

RECURSIVE FirstSeen(_, _)
\* the first parameters of the blocks, each once, in the order they are
\* first met
FirstSeen(paramlist, seen) ==
  IF paramlist = <<>> THEN seen
  ELSE FirstSeen(Tail(paramlist),
                 IF \E k \in 1..Len(seen) : seen[k] = Head(paramlist)[1]
                   THEN seen ELSE Append(seen, Head(paramlist)[1]))

RECURSIVE SumFor(_, _, _)
\* the sum of the derivatives of the blocks whose parameter is q
SumFor(paramlist, derivatives, q) ==
  IF paramlist = <<>> THEN 0
  ELSE (IF Head(paramlist)[1] = q THEN Head(derivatives) ELSE 0)
       + SumFor(Tail(paramlist), Tail(derivatives), q)

\* C3: _accumulate_product_rule returns one value per distinct parameter,
\* in first-seen order, and the value of a parameter is the sum of the
\* derivatives of all the blocks driven by it
AccumulatorSums ==
  call.fn = "_accumulate_product_rule" /\ call.done =>
    /\ call.result.keys = FirstSeen(call.args[1], <<>>)
    /\ Len(call.result.values) = Len(call.result.keys)
    /\ \A k \in 1..Len(call.result.keys) :
         call.result.values[k] =
           CInt(SumFor(call.args[1], call.args[2], call.result.keys[k]))

\* a parameter drives the first and the third block, another one the second,
\* and the sum for the shared parameter is not its last derivative
AccumulatorWitness ==
  /\ call.fn = "_accumulate_product_rule"
  /\ call.done
  /\ call.args[1] = << <<"b">>, <<"a">>, <<"b">> >>
  /\ call.result.keys = <<"b", "a">>
  /\ call.result.values[1] = CInt(call.args[2][1] + call.args[2][3])
  /\ call.result.values[1] # CInt(call.args[2][3])
  /\ call.result.values[2] = CInt(call.args[2][2])

\* C6: gradient_lookup of a gate whose type is not one of the six, and
\* that analytic_gradient classifies as "differentiate" for some parameter
\* (None included), raises NotImplementedError and returns no terms
UnsupportedRaises ==
  /\ call.fn = "gradient_lookup"
  /\ call.done
  /\ call.args[1].name \notin Supported
  /\ \E q \in Parameters \cup {None} : Classify(call.args[1], q) = "differentiate"
  => /\ call.result.err = "NotImplementedError"
     /\ call.result.terms = <<>>

\* the positions of the block analytic_gradient differentiates
DifferentiatePositions(block, parameter) ==
  {p \in 1..Len(block) : Classify(block[p], parameter) = "differentiate"}

\* term is the block with the gate at position p replaced by the m-th term
\* of its derivative lookup, carrying that term's coefficient
IsProductRuleTerm(term, block, p, m) ==
  /\ term.coeff = gradient_lookup(block[p]).terms[m].coeff
  /\ Len(term.circuit) = Len(block)
  /\ term.circuit[p] = SubCircuit(gradient_lookup(block[p]).terms[m].circuit,
                                  block[p].qargs)
  /\ \A q \in 1..Len(block) : q # p => term.circuit[q] = [block[q] EXCEPT !.id = 0]

RECURSIVE LookupTermCount(_, _)
\* the number of terms of the product rule: one per lookup term of every
\* differentiated gate
LookupTermCount(block, parameter) ==
  IF block = <<>> THEN 0
  ELSE (IF Classify(Head(block), parameter) = "differentiate"
          THEN Len(gradient_lookup(Head(block)).terms) ELSE 0)
       + LookupTermCount(Tail(block), parameter)

\* C8: the terms analytic_gradient returns are the product-rule expansion:
\* every term has exactly one differentiated gate replaced by one of its
\* lookup terms and the other gates unchanged, and there is one term per
\* lookup term of every differentiated gate
ProductRuleExpansion ==
  call.fn = "analytic_gradient" /\ call.done /\ call.result.err = "" =>
    /\ Len(call.result.terms) = LookupTermCount(call.args[1], call.args[2])
    /\ \A t \in 1..Len(call.result.terms) :
         \E p \in DifferentiatePositions(call.args[1], call.args[2]) :
         \E m \in 1..Len(gradient_lookup(call.args[1][p]).terms) :
           IsProductRuleTerm(call.result.terms[t], call.args[1], p, m)

====
